---- MODULE Spec2Model ----
(***************************************************************************)
(* Model of woodbox's HMACAuthenticator (src/authenticator.py):            *)
(* parse_authorization_header, verify (the chain of gates) and the         *)
(* authenticate wrapper that runs before every wrapped handler.            *)
(*                                                                         *)
(* Strings that the code slices or lower-cases (the scheme token) are      *)
(* sequences of one-character strings.  Digests and MACs are free          *)
(* constructors (tuples), hence injective.                                 *)
(***************************************************************************)
EXTENDS Integers, Sequences, FiniteSets, TLC

VARIABLES
    request,            \* flask.request: headers, data, args, method, path
    pc,                 \* position inside authenticate.wrapper / verify
    g_user,             \* flask.g.user
    g_user_reason,      \* flask.g.user_reason
    ret,                \* verify's return value (None while it has not returned)
    exc,                \* the exception that left verify, if any
    evaluated,          \* history: gates evaluated for the current request, in order
    lookups,            \* history: SessionModel queries made for the current request
    handler_calls,      \* history: invocations of f for the current request
    canonical_request,  \* verify's local canonical_request
    computed_signature, \* verify's local computed_signature
    derived             \* history: how the current request was derived from the previous one

vars == <<request, pc, g_user, g_user_reason, ret, exc, evaluated, lookups,
          handler_calls, canonical_request, computed_signature, derived>>

None == "None"

----------------------------------------------------------------------------
(* Characters and str.lower()                                              *)

Upper == <<"A","B","C","D","E","F","G","H","I","J","K","L","M",
           "N","O","P","Q","R","S","T","U","V","W","X","Y","Z">>
LowerOf == <<"a","b","c","d","e","f","g","h","i","j","k","l","m",
             "n","o","p","q","r","s","t","u","v","w","x","y","z">>

LowerChar(c) ==
    IF \E i \in 1..26 : Upper[i] = c
    THEN LowerOf[CHOOSE i \in 1..26 : Upper[i] = c]
    ELSE c

\* s.lower() on a string held as a sequence of characters
Lower(s) == [i \in DOMAIN s |-> LowerChar(s[i])]

Min(a, b) == IF a < b THEN a ELSE b

\* s[:n]
Take(s, n) == SubSeq(s, 1, Min(n, Len(s)))

\* s[n:]
Drop(s, n) == SubSeq(s, n + 1, Len(s))

\* the literal 'woodbox-' of authenticate.wrapper
WoodboxPrefix == <<"w","o","o","d","b","o","x","-">>

\* the literal 'hmac-sha256' of verify
HmacSha256 == <<"h","m","a","c","-","s","h","a","2","5","6">>

\* a variant that also admits hmac-sha512
KnownAlgorithmsWider == {HmacSha256, <<"h","m","a","c","-","s","h","a","5","1","2">>}

\* frozenset(['hmac-sha256'])
KnownAlgorithms == {HmacSha256}

----------------------------------------------------------------------------
(* Header names.  A request carries them in their wire spelling; the       *)
(* wrapper lower-cases them.                                               *)

WireNames == {"Host", "X-Woodbox-Content-Sha256", "X-Woodbox-Timestamp",
              "Content-Type", "X-Woodbox-Nonce", "Accept", "Authorization"}

\* h.lower().strip() for the header names of the model
LowerName(h) ==
    CASE h = "Host" -> "host"
      [] h = "X-Woodbox-Content-Sha256" -> "x-woodbox-content-sha256"
      [] h = "X-Woodbox-Timestamp" -> "x-woodbox-timestamp"
      [] h = "Content-Type" -> "content-type"
      [] h = "X-Woodbox-Nonce" -> "x-woodbox-nonce"
      [] h = "Accept" -> "accept"
      [] h = "Authorization" -> "authorization"
      [] OTHER -> h

\* h[:10] == 'x-woodbox-'
HasWoodboxPrefix(h) ==
    h \in {"x-woodbox-content-sha256", "x-woodbox-timestamp", "x-woodbox-nonce"}

\* position of a lower-cased header name in Python's string order (sorted())
NameOrd(h) ==
    CASE h = "accept" -> 1
      [] h = "authorization" -> 2
      [] h = "content-type" -> 3
      [] h = "host" -> 4
      [] h = "x-woodbox-content-sha256" -> 5
      [] h = "x-woodbox-nonce" -> 6
      [] h = "x-woodbox-timestamp" -> 7
      [] OTHER -> 8

\* sorted(names): the names of a set as an ascending sequence
RECURSIVE SortedNames(_)
SortedNames(S) ==
    IF S = {} THEN <<>>
    ELSE LET least == CHOOSE h \in S : \A k \in S : NameOrd(h) <= NameOrd(k)
         IN  <<least>> \o SortedNames(S \ {least})

\* A header value on the wire is its text and the blanks around it;
\* request.headers[h].strip() keeps the text
Strip(w) == w.text

Wire(v) == [text |-> v, pad |-> ""]

----------------------------------------------------------------------------
(* Digests, MACs, the clock, the session table                             *)

\* sha256(x).hexdigest(), a free constructor
Sha256(x) == <<"sha256", x>>

\* hmac_new(key, msg, sha256).hexdigest(), a free constructor
HmacSha256Hex(key, msg) == <<"hmac", key, msg>>

\* a variant that compares the leading part only
compare_digest_prefix(a, b) == a[1] = b[1] /\ a[2] = b[2]

\* hmac.compare_digest(a, b)
compare_digest(a, b) == a = b

\* datetime.datetime.utcnow(), in whole seconds; the clock of the model reads
\* this instant for every request, and the timestamps vary around it
utcnow == 100000

\* datetime.timedelta(minutes=5), in seconds
max_age == 300

\* how far beyond max_age the request timestamps of the model reach
Slack == 1

\* offsets of the request timestamps from the clock
TimeOffsets ==
    {d \in -(max_age + Slack)..(max_age + Slack) : d <= -max_age \/ d >= max_age - 1}

\* a timestamp header value, YYYYMMDDTHHMMSSZ, held as its instant in seconds
Iso8601(t) == <<"iso8601", t>>

\* utils.time.strptime_iso8601
strptime_iso8601(v) == v[2]

Abs(x) == IF x < 0 THEN -x ELSE x

\* a variant that rejects a request exactly max_age old
TooOldInclusive(request_time, now) ==
    (IF request_time < now THEN now - request_time ELSE request_time - now) >= max_age

\* abs(request_time - now) > max_age
TooOld(request_time, now) == Abs(request_time - now) > max_age

\* the rows of SessionModel: session_id -> (user_id, secret)
SessionIds == {"s1", "s2"}
SessionRow(id) ==
    IF id = "s1" THEN [user_id |-> "u1", secret |-> "k1"]
    ELSE [user_id |-> "u2", secret |-> "k2"]

\* SessionModel.query.filter_by(session_id=credential).first(): <<>> is None
SessionLookup(credential) ==
    IF credential \in SessionIds THEN <<SessionRow(credential)>> ELSE <<>>

----------------------------------------------------------------------------
(* parse_authorization_header                                              *)

\* name.strip().lower() for the parameter names of the model
LowerParam(n) ==
    CASE n = "Credential" -> "credential"
      [] n = "SignedHeaders" -> "signedheaders"
      [] n = "Signature" -> "signature"
      [] OTHER -> n

\* header is [method, args]: the text before the first blank and the
\* comma-separated name=value list after it.  A later name overrides.
parse_authorization_header(header) ==
    LET args == header.args
        names == {LowerParam(args[i][1]) : i \in DOMAIN args}
        last(n) == CHOOSE i \in DOMAIN args :
                      /\ LowerParam(args[i][1]) = n
                      /\ \A j \in DOMAIN args : LowerParam(args[j][1]) = n => j <= i
    IN  <<header.method, [n \in names |-> args[last(n)][2]]>>

----------------------------------------------------------------------------
(* The pieces of verify                                                    *)

\* the wrapper's headers dict: lower-cased names, stripped values
HeadersOf(req) ==
    LET wire == DOMAIN req.headers
        name(l) == CHOOSE h \in wire : LowerName(h) = l
    IN  [l \in {LowerName(h) : h \in wire} |-> Strip(req.headers[name(l)])]

\* sorted(auth['signedheaders'].lower().split(';')); ''.split(';') is ['']
SignedHeaderList(value) ==
    IF value = {} THEN <<"">> ELSE SortedNames({LowerName(h) : h \in value})

Range(s) == {s[i] : i \in DOMAIN s}

\* the first of the three parameters that auth lacks, in the order verify reads them
MissingParameter(auth) ==
    IF "credential" \notin DOMAIN auth THEN <<"credential">>
    ELSE IF "signedheaders" \notin DOMAIN auth THEN <<"signedheaders">>
    ELSE IF "signature" \notin DOMAIN auth THEN <<"signature">>
    ELSE <<>>

\* required_headers after the loop over the request's header names
RequiredHeaders(headers) ==
    {"host", "x-woodbox-content-sha256", "x-woodbox-timestamp"}
        \cup {h \in DOMAIN headers : HasWoodboxPrefix(h)}
        \cup {h \in DOMAIN headers : h = "content-type"}

\* required_headers > set(signed_headers): Python's proper-superset test
NotAllSigned(required, signed) == signed \subseteq required /\ signed # required

\* set(signed_headers) - set(six.iterkeys(headers))
MissingHeaders(signed, headers) == signed \ DOMAIN headers

\* Python's order on the query keys and values of the model (code points)
StrOrd(x) ==
    CASE x = "&" -> 38
      [] x = "1" -> 49
      [] x = "a" -> 97
      [] x = "b" -> 98
      [] OTHER -> 0

\* urllib.quote(x, ''): every character but letters, digits and _.- is escaped
Quote(x) == IF x = "&" THEN "%26" ELSE x

\* urllib.quote(path): as Quote, with '/' kept
QuotePath(x) == IF x = "/a b" THEN "/a%20b" ELSE x

RECURSIVE Insert(_, _)
Insert(x, s) ==
    IF s = <<>> THEN <<x>>
    ELSE IF StrOrd(x) <= StrOrd(Head(s)) THEN <<x>> \o s
    ELSE <<Head(s)>> \o Insert(x, Tail(s))

\* sorted(xs) for a list of strings
RECURSIVE Sorted(_)
Sorted(xs) == IF xs = <<>> THEN <<>> ELSE Insert(Head(xs), Sorted(Tail(xs)))

\* request.args.iterkeys(): each key once, in the order first received
RECURSIVE IterKeys(_)
IterKeys(args) ==
    IF args = <<>> THEN <<>>
    ELSE LET front == IterKeys(SubSeq(args, 1, Len(args) - 1))
             k == args[Len(args)][1]
         IN  IF k \in Range(front) THEN front ELSE Append(front, k)

\* request.args.getlist(key): the values received under key, in order
RECURSIVE GetList(_, _)
GetList(args, key) ==
    IF args = <<>> THEN <<>>
    ELSE IF Head(args)[1] = key THEN <<Head(args)[2]>> \o GetList(Tail(args), key)
    ELSE GetList(Tail(args), key)

\* a variant that keeps the values of a key in the order received
ReceivedValues(args, key) == GetList(args, key)

\* the values of one key, as verify orders them
OrderedValues(args, key) == Sorted(GetList(args, key))

\* the inner loop: one quoted pair per value of key
PairsOf(key, values) == [i \in DOMAIN values |-> <<Quote(key), Quote(values[i])>>]

RECURSIVE QueryPairs(_, _)
QueryPairs(args, keys) ==
    IF keys = <<>> THEN <<>>
    ELSE PairsOf(Head(keys), OrderedValues(args, Head(keys)))
            \o QueryPairs(args, Tail(keys))

\* canonical_query_string: the quoted key=value pairs, keys ascending and the
\* values of a key ascending ('&'.join keeps the pairs apart)
CanonicalQueryString(args) == QueryPairs(args, Sorted(IterKeys(args)))

\* a variant that leaves the values out
CanonicalHeaderNames(signed_headers, headers) ==
    [i \in DOMAIN signed_headers |-> <<signed_headers[i]>>]

\* canonical_headers: h + ':' + headers[h] for each signed header
CanonicalHeaders(signed_headers, headers) ==
    [i \in DOMAIN signed_headers |-> <<signed_headers[i], headers[signed_headers[i]]>>]

\* canonical_request: the six lines joined by '\n'
CanonicalRequest(req, headers, signed_headers, payload_hash) ==
    [method |-> req.method,
     canonical_uri |-> QuotePath(req.path),
     canonical_query_string |-> CanonicalQueryString(req.args),
     canonical_headers |-> CanonicalHeaders(signed_headers, headers),
     signed_headers |-> signed_headers,
     payload_hash |-> payload_hash]

\* string_to_sign
StringToSign(timestamp, canonical) ==
    <<"WOODBOX-HMAC-SHA256", timestamp, Sha256(canonical)>>

\* computed_signature for a session's secret
ComputedSignature(secret, timestamp, canonical) ==
    HmacSha256Hex(secret, StringToSign(timestamp, canonical))

----------------------------------------------------------------------------
(* The requests the environment sends                                      *)

TokenWoodboxHmac ==
    <<"W","o","o","d","b","o","x","-","H","M","A","C","-","S","H","A","2","5","6">>
TokenLowerCase ==
    <<"w","o","o","d","b","o","x","-","h","m","a","c","-","s","h","a","2","5","6">>
TokenSha512 ==
    <<"W","o","o","d","b","o","x","-","H","M","A","C","-","S","H","A","5","1","2">>
TokenBare == <<"H","M","A","C","-","S","H","A","2","5","6">>
TokenBasic == <<"B","a","s","i","c">>

SchemeTokens == {TokenWoodboxHmac, TokenLowerCase, TokenSha512, TokenBare, TokenBasic}

DataNames == WireNames \ {"Authorization"}
StaticRequired == {"Host", "X-Woodbox-Content-Sha256", "X-Woodbox-Timestamp"}

Body == "b1"
HashValues == {Sha256("b1"), Sha256("b2")}
TimestampValues == {Iso8601(utcnow + d) : d \in TimeOffsets}
FreshTimestamp == Iso8601(utcnow + max_age - 1)
Secrets == {"k1", "k2"}
Garbage == <<"garbage">>

\* the text of a header other than the timestamp and the content hash
PlainText == "a"
OtherText == "b"

DataHeaders(P, tv, sv) ==
    [h \in P |-> Wire(IF h = "X-Woodbox-Timestamp" THEN tv
                      ELSE IF h = "X-Woodbox-Content-Sha256" THEN sv
                      ELSE PlainText)]

BareRequest(P, tv, sv, args) ==
    [headers |-> DataHeaders(P, tv, sv), data |-> Body, args |-> args,
     method |-> "GET", path |-> "/a b"]

\* the Authorization header value: scheme token and the parameters of params
AuthorizationValue(token, params, cred, S, sig) ==
    [method |-> token,
     args |-> (IF "Credential" \in params THEN << <<"Credential", cred>> >> ELSE <<>>)
           \o (IF "SignedHeaders" \in params THEN << <<"SignedHeaders", S>> >> ELSE <<>>)
           \o (IF "Signature" \in params THEN << <<"Signature", sig>> >> ELSE <<>>)]

WithAuthorization(req, value) ==
    [req EXCEPT !.headers =
        [h \in DOMAIN req.headers \cup {"Authorization"} |->
            IF h = "Authorization" THEN Wire(value) ELSE req.headers[h]]]

\* what a client holding `secret` sends as Signature for req with S signed
ClientSignature(secret, req, S) ==
    LET headers == HeadersOf(req)
        signed_headers == SignedHeaderList(S)
    IN  ComputedSignature(secret, headers["x-woodbox-timestamp"],
            CanonicalRequest(req, headers, signed_headers, Sha256(req.data)))

\* the Signature parameter: what the holder of secret k sends, when the
\* string to sign exists; undecipherable text otherwise
SignatureBy(k, req, S) ==
    IF /\ k \in Secrets
       /\ S # {}
       /\ S \subseteq DOMAIN req.headers
       /\ "X-Woodbox-Timestamp" \in DOMAIN req.headers
    THEN ClientSignature(k, req, S)
    ELSE Garbage

AllParams == {"Credential", "SignedHeaders", "Signature"}

SignedRequest(token, params, cred, S, P, tv, sv, k, args) ==
    LET bare == BareRequest(P, tv, sv, args)
    IN  WithAuthorization(bare,
            AuthorizationValue(token, params, cred, S, SignatureBy(k, bare, S)))

\* who signs for which credential: the right secret, another session's secret,
\* nobody, and a credential the store does not know
CredentialAndSecret ==
    {<<"s1", "k1">>, <<"s1", "k2">>, <<"s1", "none">>, <<"s2", "k2">>, <<"zz", "k1">>}

\* every signed header present: all credentials, timestamps, content hashes
\* and signatures
DeepRequests ==
    {SignedRequest(TokenWoodboxHmac, AllParams, t[1][1], t[2], t[3], t[4], t[5],
                   t[1][2], <<>>) :
        t \in {u \in CredentialAndSecret \X (SUBSET DataNames) \X (SUBSET DataNames)
                    \X TimestampValues \X HashValues :
                u[2] \subseteq u[3]}}

\* any signed set against any set of headers present
ShallowRequests ==
    {SignedRequest(TokenWoodboxHmac, AllParams, "s1", S, P,
                   FreshTimestamp, Sha256(Body), "k1", <<>>) :
        S \in SUBSET DataNames, P \in SUBSET DataNames}

\* every scheme token and every set of parameters, on an otherwise good request
SchemeRequests ==
    {SignedRequest(token, params, "s1", StaticRequired, StaticRequired,
                   FreshTimestamp, Sha256(Body), "k1", <<>>) :
        token \in SchemeTokens, params \in SUBSET AllParams}

\* no Authorization header
AnonymousRequests ==
    {BareRequest(P, FreshTimestamp, Sha256(Body), <<>>) : P \in SUBSET DataNames}

Requests == DeepRequests \cup ShallowRequests \cup SchemeRequests \cup AnonymousRequests

NoRequest == [headers |-> <<>>, data |-> "", args |-> <<>>, method |-> "", path |-> ""]

----------------------------------------------------------------------------
(* State                                                                   *)

Unset == "Unset"

Reason(text, detail) == [text |-> text, detail |-> detail]
NoReason == Reason(Unset, <<>>)

Fresh == [kind |-> "fresh"]

Init ==
    /\ request = NoRequest
    /\ pc = "idle"
    /\ g_user = Unset
    /\ g_user_reason = NoReason
    /\ ret = None
    /\ exc = <<>>
    /\ evaluated = <<>>
    /\ lookups = 0
    /\ handler_calls = 0
    /\ canonical_request = <<>>
    /\ computed_signature = <<>>
    /\ derived = Fresh

\* verify's arguments and locals, read off the request
Headers == HeadersOf(request)
Parsed == parse_authorization_header(Headers["authorization"])
Algo == Lower(Drop(Parsed[1], 8))
Auth == Parsed[2]
Credential == Auth["credential"]
SignedHeaders == SignedHeaderList(Auth["signedheaders"])
Signature == Auth["signature"]
PayloadHash == Sha256(request.data)

\* a gate falls through to the next one
Pass(gate, next) ==
    /\ pc' = next
    /\ evaluated' = Append(evaluated, gate)
    /\ UNCHANGED <<request, g_user, g_user_reason, ret, exc, derived>>

\* g.user = None; g.user_reason = ...; return False
Reject(gate, text, detail) ==
    /\ g_user' = None
    /\ g_user_reason' = Reason(text, detail)
    /\ ret' = "False"
    /\ pc' = "handler"
    /\ evaluated' = Append(evaluated, gate)
    /\ UNCHANGED <<request, exc, derived>>

\* an exception leaves verify and the wrapper
Raise(gate, name, key) ==
    /\ exc' = <<name, key>>
    /\ pc' = "raised"
    /\ evaluated' = Append(evaluated, gate)
    /\ UNCHANGED <<request, g_user, g_user_reason, ret, derived>>

----------------------------------------------------------------------------
(* authenticate.wrapper                                                    *)

\* the wrapper up to its call of verify, for the request r
Enter(r, d) ==
    LET headers == HeadersOf(r)
    IN  /\ request' = r
        /\ derived' = d
        /\ g_user' = None
        /\ g_user_reason' = Reason("No valid authorization header.", <<>>)
        /\ pc' = IF /\ "authorization" \in DOMAIN headers
                    /\ Lower(Take(parse_authorization_header(headers["authorization"])[1], 8))
                          = WoodboxPrefix
                 THEN "algorithm"
                 ELSE "handler"
        /\ ret' = None
        /\ exc' = <<>>
        /\ evaluated' = <<>>
        /\ lookups' = 0
        /\ handler_calls' = 0
        /\ canonical_request' = <<>>
        /\ computed_signature' = <<>>

\* a request arrives and the wrapper runs
wrapper ==
    /\ pc = "idle"
    /\ \E r \in Requests : Enter(r, Fresh)

\* print(...); return f(*args, **kwargs)
Handler ==
    /\ pc = "handler"
    /\ handler_calls' = handler_calls + 1
    /\ pc' = "done"
    /\ UNCHANGED <<request, g_user, g_user_reason, ret, exc, evaluated, lookups,
                   canonical_request, computed_signature, derived>>

\* the request context ends, and flask.g with it
Teardown ==
    /\ pc \in {"done", "raised"}
    /\ request' = NoRequest
    /\ pc' = "idle"
    /\ g_user' = Unset
    /\ g_user_reason' = NoReason
    /\ ret' = None
    /\ exc' = <<>>
    /\ evaluated' = <<>>
    /\ lookups' = 0
    /\ handler_calls' = 0
    /\ canonical_request' = <<>>
    /\ computed_signature' = <<>>
    /\ derived' = Fresh

----------------------------------------------------------------------------
(* verify, gate by gate                                                    *)

GateAlgorithm ==
    /\ pc = "algorithm"
    /\ IF Lower(Algo) \notin KnownAlgorithms
       THEN Reject("algorithm", "Unknown authentication method: ", Algo)
       ELSE Pass("algorithm", "parameters")
    /\ UNCHANGED <<lookups, handler_calls, canonical_request, computed_signature>>

GateParameters ==
    /\ pc = "parameters"
    /\ LET missing == MissingParameter(Auth)
       IN  IF missing # <<>>
           THEN Reject("parameters", "Missing parameter: ", missing[1])
           ELSE Pass("parameters", "coverage")
    /\ UNCHANGED <<lookups, handler_calls, canonical_request, computed_signature>>

GateCoverage ==
    /\ pc = "coverage"
    /\ LET required == RequiredHeaders(Headers)
           signed == Range(SignedHeaders)
       IN  IF NotAllSigned(required, signed)
           THEN Reject("coverage", "Some required headers were not signed: ",
                       required \ signed)
           ELSE Pass("coverage", "presence")
    /\ UNCHANGED <<lookups, handler_calls, canonical_request, computed_signature>>

GatePresence ==
    /\ pc = "presence"
    /\ LET missing_headers == MissingHeaders(Range(SignedHeaders), Headers)
       IN  IF Cardinality(missing_headers) > 0
           THEN Reject("presence", "Missing headers: ", missing_headers)
           ELSE Pass("presence", "freshness")
    /\ UNCHANGED <<lookups, handler_calls, canonical_request, computed_signature>>

GateFreshness ==
    /\ pc = "freshness"
    /\ IF "x-woodbox-timestamp" \notin DOMAIN Headers
       THEN Raise("freshness", "KeyError", "x-woodbox-timestamp")
       ELSE IF TooOld(strptime_iso8601(Headers["x-woodbox-timestamp"]), utcnow)
       THEN Reject("freshness", "Request is too old.", <<>>)
       ELSE Pass("freshness", "content_hash")
    /\ UNCHANGED <<lookups, handler_calls, canonical_request, computed_signature>>

\* a variant that loads the session before comparing the content hash
GateContentHashLookupFirst ==
    /\ pc = "content_hash"
    /\ lookups' = lookups + 1
    /\ IF "x-woodbox-content-sha256" \notin DOMAIN Headers
       THEN Raise("content_hash", "KeyError", "x-woodbox-content-sha256")
       ELSE IF PayloadHash # Headers["x-woodbox-content-sha256"]
       THEN Reject("content_hash", "Content hash does not match.", <<>>)
       ELSE Pass("content_hash", "credential")
    /\ UNCHANGED <<handler_calls, canonical_request, computed_signature>>

GateContentHash ==
    /\ pc = "content_hash"
    /\ IF "x-woodbox-content-sha256" \notin DOMAIN Headers
       THEN Raise("content_hash", "KeyError", "x-woodbox-content-sha256")
       ELSE IF PayloadHash # Headers["x-woodbox-content-sha256"]
       THEN Reject("content_hash", "Content hash does not match.", <<>>)
       ELSE Pass("content_hash", "credential")
    /\ UNCHANGED <<lookups, handler_calls, canonical_request, computed_signature>>

GateCredential ==
    /\ pc = "credential"
    /\ lookups' = lookups + 1
    /\ IF SessionLookup(Credential) = <<>>
       THEN Reject("credential", "Invalid credential.", <<>>)
       ELSE Pass("credential", "signature")
    /\ UNCHANGED <<handler_calls, canonical_request, computed_signature>>

\* the identity verify records on a match
AuthenticatedUser(session) == session.user_id

\* signing_key
SigningKey(session) == session.secret

GateSignature ==
    /\ pc = "signature"
    /\ LET session == SessionLookup(Credential)[1]
           canonical == CanonicalRequest(request, Headers, SignedHeaders, PayloadHash)
           computed == ComputedSignature(SigningKey(session),
                                         Headers["x-woodbox-timestamp"], canonical)
       IN  /\ canonical_request' = <<canonical>>
           /\ computed_signature' = <<computed>>
           /\ IF compare_digest(Signature, computed)
              THEN /\ g_user' = AuthenticatedUser(session)
                   /\ g_user_reason' = Reason("Authenticated", <<>>)
                   /\ ret' = "True"
                   /\ pc' = "handler"
                   /\ evaluated' = Append(evaluated, "signature")
                   /\ UNCHANGED <<request, exc, derived>>
              ELSE Reject("signature", "Signature do not match", <<>>)
    /\ UNCHANGED <<lookups, handler_calls>>

----------------------------------------------------------------------------
(* Requests derived from an earlier one                                    *)

\* the texts a header can carry
TextsOf(h) ==
    IF h = "X-Woodbox-Timestamp" THEN TimestampValues
    ELSE IF h = "X-Woodbox-Content-Sha256" THEN HashValues
    ELSE {PlainText, OtherText}

\* what a header holding w can be changed to: another text, or blanks around it
ChangedValues(h, w) ==
    {Wire(t) : t \in TextsOf(h) \ {w.text}} \cup ({[text |-> w.text, pad |-> " "]} \ {w})

\* an authenticated request is sent again with the value of one signed header
\* changed and everything else, the signature included, as it was
Tamper ==
    /\ pc = "done"
    /\ ret = "True"
    /\ derived.kind = "fresh"
    /\ \E h \in DOMAIN request.headers \ {"Authorization"} :
         /\ LowerName(h) \in Range(SignedHeaders)
         /\ \E w \in ChangedValues(h, request.headers[h]) :
                Enter([request EXCEPT !.headers[h] = w],
                      [kind |-> "tamper", header |-> LowerName(h),
                       blanks_only |-> (w.text = request.headers[h].text)])

Next ==
    \/ wrapper
    \/ GateAlgorithm
    \/ GateParameters
    \/ GateCoverage
    \/ GatePresence
    \/ GateFreshness
    \/ GateContentHash
    \/ GateCredential
    \/ GateSignature
    \/ Handler
    \/ Teardown
    \/ Tamper

Spec == Init /\ [][Next]_vars

----------------------------------------------------------------------------
(* Query strings: a second specification, whose requests are good ones     *)
(* carrying every short list of query pairs                                *)

MaxQueryLen == 3

QueryKeys == {"a", "b"}
QueryValues == {"&", "1"}

ArgLists == UNION {[1..n -> QueryKeys \X QueryValues] : n \in 0..MaxQueryLen}

QueryRequests ==
    {SignedRequest(TokenWoodboxHmac, AllParams, "s1", StaticRequired, StaticRequired,
                   FreshTimestamp, Sha256(Body), "k1", args) : args \in ArgLists}

\* a request with a query string arrives and the wrapper runs
QueryArrives ==
    /\ pc = "idle"
    /\ \E r \in QueryRequests : Enter(r, Fresh)

Swap(s, i) ==
    [k \in DOMAIN s |-> IF k = i THEN s[i + 1] ELSE IF k = i + 1 THEN s[i] ELSE s[k]]

\* a request whose signature was computed is sent again with two neighbouring
\* query pairs exchanged and everything else as it was
Reorder ==
    /\ pc = "done"
    /\ computed_signature # <<>>
    /\ \E i \in 1..(Len(request.args) - 1) :
         /\ request.args[i] # request.args[i + 1]
         /\ Enter([request EXCEPT !.args = Swap(request.args, i)],
                  [kind |-> "reorder", canonical |-> canonical_request[1],
                   signature |-> computed_signature[1]])

NextQuery ==
    \/ QueryArrives
    \/ GateAlgorithm
    \/ GateParameters
    \/ GateCoverage
    \/ GatePresence
    \/ GateFreshness
    \/ GateContentHash
    \/ GateCredential
    \/ GateSignature
    \/ Handler
    \/ Teardown
    \/ Reorder

SpecQuery == Init /\ [][NextQuery]_vars

----------------------------------------------------------------------------
(* Vocabulary of the properties                                            *)

GateOrder == <<"algorithm", "parameters", "coverage", "presence",
               "freshness", "content_hash", "credential", "signature">>

HasAuthorization == pc # "idle" /\ "authorization" \in DOMAIN Headers

\* the wrapper handed the request to verify
VerifyCalled == HasAuthorization /\ Lower(Take(Parsed[1], 8)) = WoodboxPrefix

\* verify has returned, or the wrapper skipped it
Returned == pc \in {"handler", "done"}

LastGate == evaluated[Len(evaluated)]

RejectedBy(gate) == Returned /\ ret = "False" /\ evaluated # <<>> /\ LastGate = gate

PassedGate(gate) ==
    /\ gate \in Range(evaluated)
    /\ ~RejectedBy(gate)
    /\ ~(pc = "raised" /\ LastGate = gate)

SupportedToken == <<"w","o","o","d","b","o","x","-","h","m","a","c","-","s","h","a","2","5","6">>

----------------------------------------------------------------------------
(* C1 *)

\* C1: a request that passes the algorithm and parameter gates is rejected with
\* the 'required headers were not signed' reason unless every required header
\* (host, x-woodbox-content-sha256, x-woodbox-timestamp, each x-woodbox-* header
\* of the request, content-type when present) is among the signed headers; in
\* particular no request is authenticated while a required header is unsigned
C1_HeaderCoverage ==
    /\ "coverage" \in Range(evaluated) =>
          \/ RequiredHeaders(Headers) \subseteq Range(SignedHeaders)
          \/ /\ ~PassedGate("coverage")
             /\ Returned => g_user_reason.text = "Some required headers were not signed: "
    /\ ret = "True" => RequiredHeaders(Headers) \subseteq Range(SignedHeaders)

----------------------------------------------------------------------------
(* C2 *)

\* C2: verify always ends by returning True or False with a user and a reason
\* recorded; no exception leaves it
C2_NeverRaises ==
    /\ pc # "raised"
    /\ (Returned /\ VerifyCalled) =>
          /\ ret \in {"True", "False"}
          /\ g_user # Unset
          /\ g_user_reason.text # Unset

----------------------------------------------------------------------------
(* C3 *)

\* the first gate of GateOrder that the request does not satisfy, "none" when
\* it satisfies all; a header a gate reads and the request lacks fails that gate
FirstFailingGate ==
    IF Lower(Algo) \notin KnownAlgorithms THEN "algorithm"
    ELSE IF MissingParameter(Auth) # <<>> THEN "parameters"
    ELSE IF NotAllSigned(RequiredHeaders(Headers), Range(SignedHeaders)) THEN "coverage"
    ELSE IF MissingHeaders(Range(SignedHeaders), Headers) # {} THEN "presence"
    ELSE IF "x-woodbox-timestamp" \notin DOMAIN Headers THEN "freshness"
    ELSE IF Abs(Headers["x-woodbox-timestamp"][2] - utcnow) > 300 THEN "freshness"
    ELSE IF "x-woodbox-content-sha256" \notin DOMAIN Headers THEN "content_hash"
    ELSE IF Headers["x-woodbox-content-sha256"] # Sha256(request.data) THEN "content_hash"
    ELSE IF Credential \notin SessionIds THEN "credential"
    ELSE IF Signature # ComputedSignature(SessionRow(Credential).secret,
                            Headers["x-woodbox-timestamp"],
                            CanonicalRequest(request, Headers, SignedHeaders, PayloadHash))
         THEN "signature"
    ELSE "none"

ReasonOfGate(gate) ==
    CASE gate = "algorithm" -> "Unknown authentication method: "
      [] gate = "parameters" -> "Missing parameter: "
      [] gate = "coverage" -> "Some required headers were not signed: "
      [] gate = "presence" -> "Missing headers: "
      [] gate = "freshness" -> "Request is too old."
      [] gate = "content_hash" -> "Content hash does not match."
      [] gate = "credential" -> "Invalid credential."
      [] gate = "signature" -> "Signature do not match"
      [] OTHER -> "Authenticated"

\* C3: the gates run in the fixed order and verify stops at the first one that
\* fails: when the request fails a gate, verify ends with the reason of the
\* earliest failing gate recorded and no later gate evaluated
C3_EarliestFailingGate ==
    /\ evaluated = SubSeq(GateOrder, 1, Len(evaluated))
    /\ (VerifyCalled /\ pc \in {"handler", "done", "raised"} /\ FirstFailingGate # "none") =>
          /\ ret = "False"
          /\ g_user_reason.text = ReasonOfGate(FirstFailingGate)
          /\ LastGate = FirstFailingGate

----------------------------------------------------------------------------
(* C4 *)

EarlyGates == {"algorithm", "parameters", "coverage", "presence",
               "freshness", "content_hash"}

\* C4: the session lookup is made at most once per verify call and only after
\* the algorithm, parameter, header-coverage, header-presence, freshness and
\* content-hash gates have all let the request through; a request rejected by
\* one of those gates causes no lookup; a lookup that finds no session yields
\* the reason 'Invalid credential.' and no user
C4_LookupAfterGates ==
    /\ lookups <= 1
    /\ lookups = 1 => \A gate \in EarlyGates : PassedGate(gate)
    /\ (\E gate \in EarlyGates : RejectedBy(gate)) => lookups = 0
    /\ pc = "raised" => lookups = 0
    /\ (lookups = 1 /\ SessionLookup(Credential) = <<>>) =>
          /\ RejectedBy("credential")
          /\ g_user = None
          /\ g_user_reason = Reason("Invalid credential.", <<>>)
    /\ RejectedBy("credential") => lookups = 1 /\ SessionLookup(Credential) = <<>>

C4_Witness ==
    /\ pc = "done"
    /\ lookups = 1
    /\ g_user_reason.text = "Invalid credential."
    /\ g_user = None

----------------------------------------------------------------------------
(* C5 *)

\* the request of C5, but for its signature
WellFormed ==
    /\ HasAuthorization
    /\ Lower(Parsed[1]) = SupportedToken
    /\ {"credential", "signedheaders", "signature"} \subseteq DOMAIN Auth
    /\ RequiredHeaders(Headers) \subseteq Range(SignedHeaders)
    /\ Range(SignedHeaders) \subseteq DOMAIN Headers
    /\ Abs(Headers["x-woodbox-timestamp"][2] - utcnow) <= 300
    /\ Headers["x-woodbox-content-sha256"] = Sha256(request.data)
    /\ Credential \in SessionIds

\* the HMAC of the string to sign under the credential's secret
ExpectedSignature ==
    HmacSha256Hex(SessionRow(Credential).secret,
        <<"WOODBOX-HMAC-SHA256", Headers["x-woodbox-timestamp"],
          Sha256(CanonicalRequest(request, Headers, SignedHeaders, PayloadHash))>>)

\* C5: a well-formed request whose signature is the HMAC of the string to sign
\* under its credential's secret is authenticated as that credential's user
\* with reason 'Authenticated'; with any other signature it is rejected with
\* the signature-mismatch reason and no user
C5_Authenticates ==
    WellFormed =>
        /\ pc # "raised"
        /\ Returned =>
              IF Signature = ExpectedSignature
              THEN /\ ret = "True"
                   /\ g_user = SessionRow(Credential).user_id
                   /\ g_user_reason.text = "Authenticated"
              ELSE /\ ret = "False"
                   /\ g_user = None
                   /\ g_user_reason.text = "Signature do not match"

C5_Witness ==
    /\ pc = "done"
    /\ WellFormed
    /\ Signature = ExpectedSignature
    /\ Credential = "s2"
    /\ g_user = "u2"
    /\ "accept" \in Range(SignedHeaders)

----------------------------------------------------------------------------
(* C6 *)

Tampered == derived.kind = "tamper"

\* C6 as stated: an authenticating request sent again with the value of one
\* signed header changed, signature and all else fixed, is rejected with the
\* signature-mismatch reason, whichever signed header it is
C6_TamperedSignatureMismatch ==
    Tampered =>
        /\ pc # "raised"
        /\ Returned => ret = "False" /\ g_user_reason.text = "Signature do not match"

\* C6 as amended: the changed request is rejected whenever the change is more
\* than blanks around the value: by the content-hash gate when the header is
\* x-woodbox-content-sha256, by the freshness gate when it is
\* x-woodbox-timestamp and the new instant is more than 300 s from the clock,
\* and with the signature-mismatch reason in every other case; a change of blanks alone,
\* which the wrapper strips, leaves the request authenticated
C6_TamperedRejected ==
    Tampered =>
        /\ pc # "raised"
        /\ Returned =>
              IF derived.blanks_only
              THEN ret = "True"
              ELSE /\ ret = "False"
                   /\ g_user = None
                   /\ g_user_reason.text =
                        IF derived.header = "x-woodbox-content-sha256"
                        THEN "Content hash does not match."
                        ELSE IF /\ derived.header = "x-woodbox-timestamp"
                                /\ Abs(Headers["x-woodbox-timestamp"][2] - utcnow) > 300
                        THEN "Request is too old."
                        ELSE "Signature do not match"

C6_Witness ==
    /\ pc = "done"
    /\ Tampered
    /\ ~derived.blanks_only
    /\ derived.header = "host"
    /\ g_user_reason.text = "Signature do not match"

----------------------------------------------------------------------------
(* C7 *)

UnsupportedScheme == HasAuthorization /\ Lower(Parsed[1]) # SupportedToken

\* C7 as stated: every request whose Authorization scheme is not the supported
\* one ends rejected with the 'unknown authentication method' reason and no
\* user, whether or not the token begins with 'woodbox-'
C7_UnknownSchemeReason ==
    (UnsupportedScheme /\ Returned) =>
        /\ g_user = None
        /\ g_user_reason.text = "Unknown authentication method: "

\* C7 as amended: such a request ends with no user; the reason is 'Unknown
\* authentication method: ' followed by the lower-cased rest of the token when
\* the token begins with 'woodbox-' (in any case), and 'No valid authorization
\* header.' otherwise, verify not being called at all
C7_UnknownSchemeRejected ==
    (UnsupportedScheme /\ Returned) =>
        /\ g_user = None
        /\ pc # "raised"
        /\ IF Lower(Take(Parsed[1], 8)) = WoodboxPrefix
           THEN /\ ret = "False"
                /\ g_user_reason =
                      Reason("Unknown authentication method: ", Lower(Drop(Parsed[1], 8)))
                /\ evaluated = <<"algorithm">>
           ELSE /\ ret = None
                /\ g_user_reason.text = "No valid authorization header."
                /\ evaluated = <<>>

C7_Witness ==
    /\ pc = "done"
    /\ UnsupportedScheme
    /\ Parsed[1] = TokenSha512
    /\ g_user_reason.text = "Unknown authentication method: "
    /\ handler_calls = 1

----------------------------------------------------------------------------
(* C8 *)

\* seconds from the clock to the request's timestamp
Offset == Headers["x-woodbox-timestamp"][2] - utcnow

\* C8: the freshness gate lets a request through exactly when its timestamp is
\* within 300 seconds of the clock, before or after, and rejects it with
\* 'Request is too old.' otherwise: 301 s either way is rejected, 299 s and
\* exactly 300 s pass
C8_FreshnessWindow ==
    ("freshness" \in Range(evaluated) /\ "x-woodbox-timestamp" \in DOMAIN Headers) =>
        /\ PassedGate("freshness") <=> (Offset >= -300 /\ Offset <= 300)
        /\ (Returned /\ ~PassedGate("freshness")) =>
              /\ ret = "False"
              /\ g_user_reason = Reason("Request is too old.", <<>>)
        /\ Offset \in {-301, 301} => ~PassedGate("freshness")
        /\ Offset \in {-300, 299, 300} => PassedGate("freshness")

C8_Witness ==
    /\ "x-woodbox-timestamp" \in DOMAIN Headers
    /\ Offset = -300
    /\ PassedGate("freshness")
    /\ pc = "done"

----------------------------------------------------------------------------
(* C9 *)

Unquote(q) == IF q = "%26" THEN "&" ELSE q

Count(seq, x) == Cardinality({i \in DOMAIN seq : seq[i] = x})

\* pair p comes no later than pair q: by key, then by value
PairLeq(p, q) ==
    \/ StrOrd(Unquote(p[1])) < StrOrd(Unquote(q[1]))
    \/ /\ p[1] = q[1]
       /\ StrOrd(Unquote(p[2])) <= StrOrd(Unquote(q[2]))

\* C9: the canonical query string holds exactly the query pairs received, each
\* as often as received, ordered by key and then by value; so a request sent
\* again with its query pairs in another order has the same canonical request
\* and the same expected signature, and authenticates as before
C9_QueryOrderIndependent ==
    canonical_request # <<>> =>
        LET q == canonical_request[1].canonical_query_string
        IN  /\ Len(q) = Len(request.args)
            /\ \A i \in DOMAIN q :
                  Count(q, q[i]) = Count(request.args, <<Unquote(q[i][1]), Unquote(q[i][2])>>)
            /\ \A i, j \in DOMAIN q : i < j => PairLeq(q[i], q[j])
            /\ derived.kind = "reorder" =>
                  /\ canonical_request[1] = derived.canonical
                  /\ computed_signature[1] = derived.signature
                  /\ ret = "True"

C9_Witness ==
    /\ pc = "done"
    /\ derived.kind = "reorder"
    /\ ret = "True"
    /\ \E i, j \in DOMAIN request.args :
          /\ i < j
          /\ request.args[i][1] = request.args[j][1]
          /\ StrOrd(request.args[i][2]) > StrOrd(request.args[j][2])
    /\ \E i, j \in DOMAIN request.args :
          /\ i < j
          /\ StrOrd(request.args[i][1]) > StrOrd(request.args[j][1])

----------------------------------------------------------------------------
(* C10 *)

\* C10: the wrapped handler is invoked exactly once per request, whatever the
\* outcome of authentication, and when it is invoked the user is not None only
\* if verify returned True for this request, the reason then being
\* 'Authenticated'
C10_HandlerOncePerRequest ==
    /\ handler_calls <= 1
    /\ pc \in {"done", "raised"} => handler_calls = 1
    /\ pc = "done" =>
          /\ g_user # Unset
          /\ g_user # None => ret = "True" /\ g_user_reason.text = "Authenticated"

====
